---- MODULE Spec2Model ----
(***************************************************************************)
(* Retrieval pipeline of journal_check: the tier-1 HTTP scraper            *)
(* (03_scrape_guidelines.py), the browser-agent scraper                    *)
(* (03b_browser_scrape.py), the Playwright scraper (03c_direct_scrape.py), *)
(* the fix scripts (03d, 03e, 03f) and the link-follow augmenter           *)
(* (03c_follow_guideline_links.py), over the two stores they share: the    *)
(* ledger file scraping_log.json and the directory of text artifacts.      *)
(*                                                                         *)
(* Strings that the code inspects character by character (journal names,   *)
(* slugs) are tuples of one-character strings.  A URL is a record          *)
(* [host, path]; a text is a record [len, refs, fail] holding its length,  *)
(* the URL references the link patterns of the augmenter match in it, and  *)
(* whether it carries one of the failure phrases the scripts look for.     *)
(***************************************************************************)
EXTENDS Integers, Sequences, FiniteSets, TLC

VARIABLES
    df,        \* rows of journals_with_urls.csv (title, homepage_url)
    log,       \* scraping_log.json: the persisted ledger, a sequence of entries
    hasLog,    \* whether scraping_log.json exists
    files,     \* TEXT_DIR: slug -> text artifact, or NoFile
    stage,     \* the stage that is running, or "idle"
    mem,       \* the running stage's in-memory entries (results / log_by_slug / scrape_log)
    todo,      \* the running stage's work list (to_scrape of 03c, results of the augmenter)
    idx,       \* loop position of the running stage
    call,      \* the last fetch call of the running stage: what it requested and returned
    touched,   \* the slugs whose content the running stage has accepted so far
    runs,      \* number of stage runs started
    csv,       \* pilot_feasibility_results.csv: the rows written by the analysis stage
    hasCsv,    \* whether pilot_feasibility_results.csv exists
    arg,       \* the arguments of a function that is run on its own
    ret        \* the value that function returned

vars == <<df, log, hasLog, files, stage, mem, todo, idx, call, touched, runs,
          csv, hasCsv, arg, ret>>

\* what the scraping stages never touch
aux == <<csv, hasCsv, arg, ret>>

(* ------------------------------ bounds --------------------------------- *)

MaxJournals == 2
MaxRuns == 2

(* ----------------------------- constants ------------------------------- *)

None == "None"
SlugMaxLen == 50
MinTextLen == 500
MaxLinksFetched == 3

Min(a, b) == IF a < b THEN a ELSE b

(* ------------------------------ slugify -------------------------------- *)

UpperLetters ==
    << "A", "B", "C", "D", "E", "F", "G", "H", "I", "J", "K", "L", "M",
       "N", "O", "P", "Q", "R", "S", "T", "U", "V", "W", "X", "Y", "Z" >>
LowerLetters ==
    << "a", "b", "c", "d", "e", "f", "g", "h", "i", "j", "k", "l", "m",
       "n", "o", "p", "q", "r", "s", "t", "u", "v", "w", "x", "y", "z" >>

\* str.lower() on one character
Lower(c) ==
    IF \E i \in 1..Len(UpperLetters) : UpperLetters[i] = c
    THEN LowerLetters[CHOOSE i \in 1..Len(UpperLetters) : UpperLetters[i] = c]
    ELSE c

\* str.lower() on a string given as the sequence of its characters
LowerAll(s) == [i \in 1..Len(s) |-> Lower(s[i])]

\* `needle in hay` on strings given as sequences of characters
Contains(hay, needle) ==
    \E i \in 0..(Len(hay) - Len(needle)) :
      \A j \in 1..Len(needle) : hay[i + j] = needle[j]

\* \w of Python's re on str: letters (of any script), digits and the underscore
IsWordChar(c) == c \in {"a", "b", "k", "z", "0", "_", "é"}
IsSpaceChar(c) == c = " "
IsSepChar(c) == c = "-" \/ IsSpaceChar(c)

RECURSIVE CollapseSeps(_)
CollapseSeps(s) ==
    IF s = <<>> THEN <<>>
    ELSE IF IsSepChar(Head(s))
         THEN IF Len(s) > 1 /\ IsSepChar(s[2])
              THEN CollapseSeps(Tail(s))
              ELSE <<"-">> \o CollapseSeps(Tail(s))
         ELSE <<Head(s)>> \o CollapseSeps(Tail(s))

RECURSIVE StripLeft(_)
StripLeft(s) ==
    IF s # <<>> /\ Head(s) = "-" THEN StripLeft(Tail(s)) ELSE s

RECURSIVE StripRight(_)
StripRight(s) ==
    IF s # <<>> /\ s[Len(s)] = "-" THEN StripRight(SubSeq(s, 1, Len(s) - 1)) ELSE s

slugify(text) ==
    LET lowered  == [i \in 1..Len(text) |-> Lower(text[i])]
        kept     == SelectSeq(lowered, LAMBDA c : IsWordChar(c) \/ IsSepChar(c))
        hyphened == CollapseSeps(kept)
        stripped == StripRight(StripLeft(hyphened))
    IN SubSeq(stripped, 1, Min(SlugMaxLen, Len(stripped)))


\* the characters of the strings of the model
Chars(s) ==
    CASE s = "author guidelines" -> <<"a", "u", "t", "h", "o", "r", " ", "g", "u", "i", "d", "e", "l", "i", "n", "e", "s">>
      [] s = "submission guidelines" -> <<"s", "u", "b", "m", "i", "s", "s", "i", "o", "n", " ", "g", "u", "i", "d", "e", "l", "i", "n", "e", "s">>
      [] s = "instructions for authors" -> <<"i", "n", "s", "t", "r", "u", "c", "t", "i", "o", "n", "s", " ", "f", "o", "r", " ", "a", "u", "t", "h", "o", "r", "s">>
      [] s = "guide for authors" -> <<"g", "u", "i", "d", "e", " ", "f", "o", "r", " ", "a", "u", "t", "h", "o", "r", "s">>
      [] s = "author instructions" -> <<"a", "u", "t", "h", "o", "r", " ", "i", "n", "s", "t", "r", "u", "c", "t", "i", "o", "n", "s">>
      [] s = "how to submit" -> <<"h", "o", "w", " ", "t", "o", " ", "s", "u", "b", "m", "i", "t">>
      [] s = "manuscript preparation" -> <<"m", "a", "n", "u", "s", "c", "r", "i", "p", "t", " ", "p", "r", "e", "p", "a", "r", "a", "t", "i", "o", "n">>
      [] s = "/for-authors" -> <<"/", "f", "o", "r", "-", "a", "u", "t", "h", "o", "r", "s">>
      [] s = "/authors" -> <<"/", "a", "u", "t", "h", "o", "r", "s">>
      [] s = "/author-guidelines" -> <<"/", "a", "u", "t", "h", "o", "r", "-", "g", "u", "i", "d", "e", "l", "i", "n", "e", "s">>
      [] s = "/submission-guidelines" -> <<"/", "s", "u", "b", "m", "i", "s", "s", "i", "o", "n", "-", "g", "u", "i", "d", "e", "l", "i", "n", "e", "s">>
      [] s = "/instructions-for-authors" -> <<"/", "i", "n", "s", "t", "r", "u", "c", "t", "i", "o", "n", "s", "-", "f", "o", "r", "-", "a", "u", "t", "h", "o", "r", "s">>
      [] s = "/instructions-authors" -> <<"/", "i", "n", "s", "t", "r", "u", "c", "t", "i", "o", "n", "s", "-", "a", "u", "t", "h", "o", "r", "s">>
      [] s = "/submit" -> <<"/", "s", "u", "b", "m", "i", "t">>
      [] s = "/about/submissions" -> <<"/", "a", "b", "o", "u", "t", "/", "s", "u", "b", "m", "i", "s", "s", "i", "o", "n", "s">>
      [] s = "/about/author-guidelines" -> <<"/", "a", "b", "o", "u", "t", "/", "a", "u", "t", "h", "o", "r", "-", "g", "u", "i", "d", "e", "l", "i", "n", "e", "s">>
      [] s = "About" -> <<"A", "b", "o", "u", "t">>
      [] s = "Author Guidelines" -> <<"A", "u", "t", "h", "o", "r", " ", "G", "u", "i", "d", "e", "l", "i", "n", "e", "s">>
      [] s = "Submit" -> <<"S", "u", "b", "m", "i", "t">>
      [] s = "How to submit" -> <<"H", "o", "w", " ", "t", "o", " ", "s", "u", "b", "m", "i", "t">>
      [] s = "INSTRUCTIONS FOR AUTHORS" -> <<"I", "N", "S", "T", "R", "U", "C", "T", "I", "O", "N", "S", " ", "F", "O", "R", " ", "A", "U", "T", "H", "O", "R", "S">>
      [] s = "Info" -> <<"I", "n", "f", "o">>
      [] s = "More" -> <<"M", "o", "r", "e">>
      [] s = "Authors" -> <<"A", "u", "t", "h", "o", "r", "s">>
      [] s = "/about" -> <<"/", "a", "b", "o", "u", "t">>
      [] s = "/info" -> <<"/", "i", "n", "f", "o">>
      [] s = "/docs" -> <<"/", "d", "o", "c", "s">>
      [] s = "/Authors-Area" -> <<"/", "A", "u", "t", "h", "o", "r", "s", "-", "A", "r", "e", "a">>
      [] s = "/author" -> <<"/", "a", "u", "t", "h", "o", "r">>

(* ------------------------------- URLs ---------------------------------- *)

NoUrl == [host |-> "", path |-> ""]

\* the NaN that pd.read_csv yields for an empty homepage_url field: it is truthy
\* and it is not a str
NanUrl == [host |-> "nan", path |-> ""]
HomeUrl == [host |-> "j.org", path |-> "/journal"]

GUIDELINES_PATHS ==
    << "/for-authors", "/authors", "/author-guidelines",
       "/submission-guidelines", "/instructions-for-authors",
       "/instructions-authors", "/submit", "/about/submissions",
       "/about/author-guidelines" >>

\* href of an anchor: host "" for a root-relative reference
urljoin(base, href) ==
    IF href.host = "" THEN [host |-> base.host, path |-> href.path] ELSE href

GUIDELINES_KEYWORDS ==
    << "author guidelines", "submission guidelines", "instructions for authors",
       "guide for authors", "author instructions", "how to submit",
       "manuscript preparation" >>

\* `path in href.lower()`
PathInHref(path, href) == Contains(LowerAll(Chars(href.path)), Chars(path))

\* `keyword in text` for some keyword, text being the lowered text of the link
KeywordInLinkText(t) ==
    \E k \in 1..Len(GUIDELINES_KEYWORDS) :
      Contains(LowerAll(Chars(t)), Chars(GUIDELINES_KEYWORDS[k]))

(* ------------------------------- texts --------------------------------- *)

NoFile == [len |-> -1, refs |-> <<>>, fail |-> FALSE]
Txt(n) == [len |-> n, refs |-> <<>>, fail |-> FALSE]

LinkA == [host |-> "pub.com", path |-> "/for-authors"]
LinkB == [host |-> "pub.com", path |-> "/instructions"]

\* a reference [url, pats]: pats are the GUIDELINE_LINK_PATTERNS (1..4) that match it
TxtGuide == [len |-> 900, refs |-> << [url |-> LinkA, pats |-> {1, 4}] >>, fail |-> FALSE]


(* --------------------------- HTTP responses ---------------------------- *)

\* a body: its anchors, whether its raw markup contains one of
\* GUIDELINES_KEYWORDS (case-insensitively), and the text extract_text yields
Body(anchors, kw, text) == [anchors |-> anchors, kw |-> kw, text |-> text]

AnchorAbout  == [text |-> "About", href |-> [host |-> "", path |-> "/about"]]
AnchorGuide  == [text |-> "Author Guidelines", href |-> [host |-> "", path |-> "/info"]]
AnchorSubmit == [text |-> "Submit", href |-> [host |-> "", path |-> "/for-authors"]]
AnchorUpper  == [text |-> "INSTRUCTIONS FOR AUTHORS", href |-> [host |-> "", path |-> "/docs"]]
AnchorArea   == [text |-> "Info", href |-> [host |-> "", path |-> "/Authors-Area"]]
AnchorAbs    == [text |-> "More", href |-> [host |-> "pub.com", path |-> "/submit"]]
AnchorNear   == [text |-> "Authors", href |-> [host |-> "", path |-> "/author"]]

Anchors ==
    { AnchorAbout, AnchorGuide, AnchorSubmit, AnchorUpper, AnchorArea, AnchorAbs, AnchorNear }

BodyNone     == Body(<<>>, FALSE, NoFile)
BodyHome     == Body(<<AnchorAbout>>, FALSE, Txt(600))
BodyHomeLink == Body(<<AnchorAbout, AnchorGuide, AnchorSubmit>>, TRUE, Txt(600))
BodyGuide    == Body(<<>>, TRUE, TxtGuide)
BodyGeneric  == Body(<<AnchorAbout>>, FALSE, Txt(400))
BodyError    == Body(<<>>, FALSE, Txt(30))

\* status 0: the request raised httpx.HTTPError (network error, timeout);
\* status -1: the request was not issued
Resp(st, b) == [status |-> st, body |-> b]
RespErr == Resp(0, BodyNone)
NotAsked == Resp(-1, BodyNone)

HomeResponses ==
    { RespErr, Resp(403, BodyError), Resp(404, BodyError) }
    \cup { Resp(200, b) : b \in {BodyHome, BodyHomeLink} }

LinkResponses ==
    { RespErr, Resp(404, BodyError), Resp(200, BodyGeneric) }

ProbeResponses ==
    { RespErr, Resp(404, BodyError), Resp(200, BodyGeneric), Resp(200, BodyGuide) }

\* the probes that may answer anything; the other paths all raise or all answer 404
ProbePositions == {1, 2}

ProbeVectors ==
    { [i \in 1..Len(GUIDELINES_PATHS) |-> IF i \in ProbePositions THEN f[i] ELSE q] :
      f \in [ProbePositions -> ProbeResponses], q \in {RespErr, Resp(404, BodyError)} }

NoProbes == [i \in 1..Len(GUIDELINES_PATHS) |-> NotAsked]

extract_text(body) == body.text

(* ------------------------- find_guidelines_link ------------------------ *)

\* the two tests of the loop body, for every anchor of the model
MatchTable ==
    [a \in Anchors |->
       \/ KeywordInLinkText(a.text)
       \/ \E i \in 1..Len(GUIDELINES_PATHS) : PathInHref(GUIDELINES_PATHS[i], a.href)]

AnchorMatches(a) == MatchTable[a]

\* the resolver returning the last qualifying anchor instead of the first
find_last_link(body, base_url) ==
    LET hits == { i \in 1..Len(body.anchors) : AnchorMatches(body.anchors[i]) }
    IN IF hits = {} THEN NoUrl
       ELSE LET last == CHOOSE i \in hits : \A j \in hits : i >= j
            IN urljoin(base_url, body.anchors[last].href)

find_guidelines_link(body, base_url) ==
    LET hits == { i \in 1..Len(body.anchors) : AnchorMatches(body.anchors[i]) }
    IN IF hits = {} THEN NoUrl
       ELSE LET first == CHOOSE i \in hits : \A j \in hits : i <= j
            IN urljoin(base_url, body.anchors[first].href)

(* -------------------------- scrape_journal_http ------------------------ *)

\* the record of one fetch call: the responses received, the URLs requested in
\* order, one right after the other, the return statement taken (exit), the
\* value returned, and whether the caller slept after the call
Call(home, link, reqs, exit, ok, html, text, url) ==
    [home |-> home, link |-> link, probes |-> NoProbes, reqs |-> reqs, exit |-> exit,
     ok |-> ok, html |-> html, text |-> text, url |-> url, slept |-> FALSE]

\* time.sleep(2) / asyncio.sleep(2) at the end of an iteration
ThenSleep(c) == [c EXCEPT !.slept = TRUE]

NoCall == Call(NotAsked, NotAsked, <<>>, "none", FALSE, BodyNone, NoFile, NoUrl)

ProbeUrl(homepage_url, i) == [host |-> homepage_url.host, path |-> GUIDELINES_PATHS[i]]

\* `resp.status_code == 403` after the homepage request
Blocked(h) == h.status = 403

\* a candidate link that is accepted only with a guideline keyword in its body
LinkAcceptedOnKeyword(l) == l.status = 200 /\ l.body.kw

\* `resp.status_code == 200` after the request of the candidate link: no keyword check
LinkAccepted(l) == l.status = 200

\* a probe that is accepted on its status alone
ProbeAcceptedOnStatus(r) == r.status = 200

\* a probe is accepted on status 200 with a guideline keyword in the raw body
ProbeAccepted(r) == r.status = 200 /\ r.body.kw

\* the answers of the first n probes, the ones the loop has issued
Received(rs, n) ==
    [i \in 1..Len(GUIDELINES_PATHS) |-> IF i <= n THEN rs[i] ELSE NotAsked]

\* the loop over GUIDELINES_PATHS: resp is the local variable the loop reassigns
RECURSIVE ProbeLoop(_, _, _, _, _)
ProbeLoop(rs, i, resp, reqs, homepage_url) ==
    IF i > Len(GUIDELINES_PATHS)
    THEN [hit |-> 0, resp |-> resp, reqs |-> reqs]
    ELSE LET r == rs[i]
             sent == Append(reqs, ProbeUrl(homepage_url, i))
         IN IF r.status = 0
            THEN ProbeLoop(rs, i + 1, resp, sent, homepage_url)
            ELSE IF ProbeAccepted(r)
                 THEN [hit |-> i, resp |-> r, reqs |-> sent]
                 ELSE ProbeLoop(rs, i + 1, r, sent, homepage_url)

scrape_journal_http(homepage_url, h, l, rs) ==
    LET g     == find_guidelines_link(h.body, homepage_url)
        reqs1 == IF g # NoUrl THEN <<homepage_url, g>> ELSE <<homepage_url>>
        resp1 == IF g # NoUrl THEN l ELSE h
        lnk   == IF g # NoUrl THEN l ELSE NotAsked
        loop  == ProbeLoop(rs, 1, resp1, reqs1, homepage_url)
        got   == Received(rs, Len(loop.reqs) - Len(reqs1))
    IN IF h.status = 0
       THEN Call(h, NotAsked, <<homepage_url>>, "error", FALSE, BodyNone, NoFile, NoUrl)
       ELSE IF Blocked(h)
       THEN Call(h, NotAsked, <<homepage_url>>, "blocked", FALSE, BodyNone, NoFile, NoUrl)
       ELSE IF h.status # 200
       THEN Call(h, NotAsked, <<homepage_url>>, "status", FALSE, BodyNone, NoFile, NoUrl)
       ELSE IF g # NoUrl /\ l.status = 0
       THEN Call(h, l, reqs1, "error", FALSE, BodyNone, NoFile, NoUrl)
       ELSE IF g # NoUrl /\ LinkAccepted(l)
       THEN Call(h, l, reqs1, "link", TRUE, l.body, extract_text(l.body), g)
       ELSE IF loop.hit > 0
       THEN [Call(h, lnk, loop.reqs, "probe", TRUE, loop.resp.body,
                  extract_text(loop.resp.body), ProbeUrl(homepage_url, loop.hit))
             EXCEPT !.probes = got]
       ELSE [Call(h, lnk, loop.reqs, "fallback", TRUE, loop.resp.body,
                  extract_text(loop.resp.body), homepage_url)
             EXCEPT !.probes = got]

\* the responses the later requests of one call can receive, given the earlier ones
LinkChoices(homepage_url, h) ==
    IF h.status = 200 /\ find_guidelines_link(h.body, homepage_url) # NoUrl
    THEN LinkResponses ELSE {NotAsked}

ProbeChoices(h, l) ==
    IF h.status = 200 /\ l.status # 0 /\ ~LinkAccepted(l) THEN ProbeVectors ELSE {NoProbes}

(* ------------------------------ the ledger ----------------------------- *)

Titles == { <<"A">>, <<"a", "!">> }

\* a journal has a homepage URL, or none: None when the frame is built in
\* memory, NaN when it is read from journals_with_urls.csv
Rows == [title : Titles, homepage_url : {HomeUrl}]
        \cup { [title |-> <<"K">>, homepage_url |-> u] : u \in {NoUrl, NanUrl} }

Slugs == { slugify(r.title) : r \in Rows }

NewEntry(name, slug, homepage) ==
    [journal_name |-> name, slug |-> slug, homepage_url |-> homepage,
     guidelines_url |-> NoUrl, status |-> "pending", method |-> None,
     text_length |-> 0, error |-> None, additional_links_fetched |-> 0]

(* -------------------- tier 1: 03_scrape_guidelines.py ------------------ *)

CanStart == stage = "idle" /\ runs < MaxRuns

\* an entry without a URL that is left as it was created
T1NoUrlEntryPending(result) ==
    [result EXCEPT !.error = "No homepage URL available"]

\* the entries scrape_journals appends
T1NoUrlEntry(result) ==
    [result EXCEPT !.status = "no_url", !.error = "No homepage URL available"]

T1SuccessEntry(result, c) ==
    [result EXCEPT !.guidelines_url = c.url, !.status = "success", !.method = "http",
                   !.text_length = c.text.len]

\* a failure branch that forgets the error text
T1FailedEntryNoError(result) ==
    [result EXCEPT !.status = "needs_browser"]

T1FailedEntry(result) ==
    [result EXCEPT !.status = "needs_browser",
                   !.error = "HTTP scraping failed, needs browser automation"]

T1Start ==
    /\ CanStart
    /\ stage' = "t1"
    /\ mem' = <<>>
    /\ idx' = 1
    /\ runs' = runs + 1
    /\ UNCHANGED <<aux, df, log, hasLog, files, todo, call, touched>>

\* one iteration of the loop of scrape_journals
T1Journal ==
    /\ stage = "t1" /\ idx <= Len(df)
    /\ df[idx].homepage_url # NanUrl
    /\ LET row    == df[idx]
           slug   == slugify(row.title)
           result == NewEntry(row.title, slug, row.homepage_url)
       IN IF row.homepage_url = NoUrl
          THEN /\ mem' = Append(mem, T1NoUrlEntry(result))
               /\ call' = NoCall
               /\ UNCHANGED <<files, touched>>
          ELSE \E h \in HomeResponses :
               \E l \in LinkChoices(row.homepage_url, h) :
               \E rs \in ProbeChoices(h, l) :
                 LET c == scrape_journal_http(row.homepage_url, h, l, rs)
                 IN /\ call' = ThenSleep(c)
                    /\ IF c.ok
                       THEN /\ mem' = Append(mem, T1SuccessEntry(result, c))
                            /\ files' = [files EXCEPT ![slug] = c.text]
                            /\ touched' = touched \cup {slug}
                       ELSE /\ mem' = Append(mem, T1FailedEntry(result))
                            /\ UNCHANGED <<files, touched>>
    /\ idx' = idx + 1
    /\ UNCHANGED <<aux, df, log, hasLog, stage, todo, runs>>

\* the iteration for a row whose homepage_url is NaN: `not homepage_url` is
\* false, client.get raises TypeError, which is no httpx.HTTPError, and the
\* exception leaves scrape_journals and main before the log is written
T1Crash ==
    /\ stage = "t1" /\ idx <= Len(df)
    /\ df[idx].homepage_url = NanUrl
    /\ stage' = "idle"
    /\ mem' = <<>>
    /\ idx' = 1
    /\ call' = NoCall
    /\ touched' = {}
    /\ UNCHANGED <<aux, df, log, hasLog, files, todo, runs>>

\* main: json.dump(results) replaces the whole log file
T1Save ==
    /\ stage = "t1" /\ idx > Len(df)
    /\ log' = mem
    /\ hasLog' = TRUE
    /\ stage' = "idle"
    /\ mem' = <<>>
    /\ idx' = 1
    /\ call' = NoCall
    /\ touched' = {}
    /\ UNCHANGED <<aux, df, files, todo, runs>>

(* ------------------- the hard-coded tables of the later stages ------------------- *)
(* Each table is cut down to the slugs of the model: "a" stands for a journal  *)
(* that 03b, 03c, 03d and 03f list (journal-of-consumer-psychology), "k" for   *)
(* the journal of 03e (psychotherapy-and-psychosomatics) and for the journals  *)
(* 03c re-scrapes in every run.                                               *)

SlugA == <<"a">>
SlugK == <<"k">>

BrowserUrlA == [host |-> "pub.com", path |-> "/forauthors.html"]
DirectUrlA  == [host |-> "pub.com", path |-> "/author-guidelines"]
DirectUrlK  == [host |-> "karger.com", path |-> "/guidelines-for-authors"]
FixUrlA     == [host |-> "pub.com", path |-> "/hub/forauthors.html"]
KargerUrl   == [host |-> "karger.com", path |-> "/Author-Guidelines"]

JOURNALS_NEEDING_BROWSER == << [slug |-> SlugA, url |-> BrowserUrlA] >>

DIRECT_URLS == [s \in {SlugA, SlugK} |-> IF s = SlugA THEN DirectUrlA ELSE DirectUrlK]

\* the slugs 03c re-scrapes whatever their artifact holds (the SAGE and Elsevier lists)
RESCRAPE_SLUGS == {SlugK}

JOURNAL_FIXES == << [slug |-> SlugA, url |-> FixUrlA] >>

JOURNALS_TO_FIX == << [slug |-> SlugA, url |-> FixUrlA] >>

(* ------------------------- fetch outcomes of the later stages -------------------- *)

\* a text that starts with a failure phrase ("Failed to access ...")
TxtFailed == [len |-> 620, refs |-> <<>>, fail |-> TRUE]
TxtMore   == [len |-> 700, refs |-> << [url |-> LinkB, pats |-> {4}] >>, fail |-> FALSE]

\* final_result() of the browser agent when it is truthy
AgentTexts == { Txt(400), Txt(501), TxtFailed }

\* what running the agent yields: nothing (an exception, a falsy final_result) or a text
NoResult == [ok |-> FALSE, text |-> NoFile]
AgentResults == { NoResult } \cup { [ok |-> TRUE, text |-> t] : t \in AgentTexts }

\* fetch_elsevier_guidelines / fetch_url: None unless the status is 200
HttpResults ==
    { NoResult } \cup { [ok |-> TRUE, text |-> extract_text(b)] : b \in {BodyGeneric, BodyGuide} }
LinkFetchResults ==
    { NoResult } \cup { [ok |-> TRUE, text |-> t] : t \in {Txt(400), TxtMore} }

\* page.content() of the Playwright page: challenge markers and the text of the page
Page(widget, jam, text) == [widget |-> widget, jam |-> jam, text |-> text]
PageContents ==
    { Page(FALSE, FALSE, Txt(500)), Page(FALSE, FALSE, Txt(501)),
      Page(TRUE, TRUE, Txt(20)), Page(FALSE, TRUE, Txt(20)) }

\* the call record of a fetch that is not scrape_journal_http
Fetched(url, ok, text) ==
    Call(NotAsked, NotAsked, <<url>>, "fetch", ok, BodyNone, text, url)

(* ------------------------------- log_by_slug ------------------------------------- *)

HasSlug(d, slug) == \E i \in 1..Len(d) : d[i].slug = slug

\* d[e.slug] = e on an insertion-ordered dict held as the sequence of its values
DictPut(d, e) ==
    IF HasSlug(d, e.slug)
    THEN [i \in 1..Len(d) |-> IF d[i].slug = e.slug THEN e ELSE d[i]]
    ELSE Append(d, e)

RECURSIVE BySlugFrom(_, _)
BySlugFrom(l, d) ==
    IF l = <<>> THEN d ELSE BySlugFrom(Tail(l), DictPut(d, Head(l)))

\* {r["slug"]: r for r in scrape_log}
BySlug(l) == BySlugFrom(l, <<>>)

\* the index of the first entry of l with the slug, 0 if there is none
FirstWithSlug(l, slug) ==
    IF HasSlug(l, slug)
    THEN CHOOSE i \in 1..Len(l) : l[i].slug = slug /\ \A j \in 1..(i - 1) : l[j].slug # slug
    ELSE 0

(* ------------------ browser agent: 03b_browser_scrape.py ----------------- *)

StartStage(name, entries, work) ==
    /\ CanStart
    /\ hasLog
    /\ stage' = name
    /\ mem' = entries
    /\ todo' = work
    /\ idx' = 1
    /\ runs' = runs + 1
    /\ UNCHANGED <<aux, df, log, hasLog, files, call, touched>>

SaveStage(name, len, entries) ==
    /\ stage = name /\ idx > len
    /\ log' = entries
    /\ stage' = "idle"
    /\ mem' = <<>>
    /\ todo' = <<>>
    /\ idx' = 1
    /\ call' = NoCall
    /\ touched' = {}
    /\ UNCHANGED <<aux, df, hasLog, files, runs>>

B3Start == StartStage("03b", BySlug(log), <<>>)

\* an update that also takes the URL of the table as the journal's homepage
B3UpdateWithHomepage(e, text, url) ==
    [e EXCEPT !.status = "success", !.method = "browser", !.text_length = text.len,
              !.guidelines_url = url, !.error = None, !.homepage_url = url]

B3Update(e, text, url) ==
    [e EXCEPT !.status = "success", !.method = "browser", !.text_length = text.len,
              !.guidelines_url = url, !.error = None]

B3Journal ==
    /\ stage = "03b" /\ idx <= Len(JOURNALS_NEEDING_BROWSER)
    /\ LET journal == JOURNALS_NEEDING_BROWSER[idx]
           slug    == journal.slug
       IN \E r \in AgentResults :
            /\ call' = Fetched(journal.url, r.ok, r.text)
            /\ IF r.ok
               THEN /\ files' = [files EXCEPT ![slug] = r.text]
                    /\ touched' = touched \cup {slug}
                    /\ mem' = [i \in 1..Len(mem) |->
                                 IF mem[i].slug = slug
                                 THEN B3Update(mem[i], r.text, journal.url) ELSE mem[i]]
               ELSE UNCHANGED <<files, mem, touched>>
    /\ idx' = idx + 1
    /\ UNCHANGED <<aux, df, log, hasLog, stage, todo, runs>>

B3Save == SaveStage("03b", Len(JOURNALS_NEEDING_BROWSER), mem)

(* ------------------- Playwright: 03c_direct_scrape.py -------------------- *)

\* needs_scrape of main for one entry of scrape_log
NeedsScrape(slug) ==
    \/ files[slug] = NoFile
    \/ files[slug].len < MinTextLen
    \/ files[slug].fail
    \/ slug \in RESCRAPE_SLUGS /\ slug \in DOMAIN DIRECT_URLS

ToScrape(l) ==
    SelectSeq([i \in 1..Len(l) |-> l[i].slug],
              LAMBDA slug : NeedsScrape(slug) /\ slug \in DOMAIN DIRECT_URLS)

\* scrape_with_playwright: c1 is the content after loading, c2 after the second wait
scrape_with_playwright(c1, c2) ==
    IF c1.widget \/ c1.jam
    THEN IF c2.widget THEN NoResult
         ELSE [ok |-> TRUE, text |-> c2.text]
    ELSE [ok |-> TRUE, text |-> c1.text]

D3Accepts(r) == r.ok /\ r.text.len > 0 /\ r.text.len > MinTextLen

D3Update(e, text, url) ==
    [e EXCEPT !.status = "success", !.method = "playwright", !.text_length = text.len,
              !.guidelines_url = url]

D3Start == StartStage("03c", BySlug(log), ToScrape(log))

D3Journal ==
    /\ stage = "03c" /\ idx <= Len(todo)
    /\ LET slug == todo[idx]
           url  == DIRECT_URLS[slug]
       IN \E r \in { scrape_with_playwright(c1, c2) : c1 \in PageContents, c2 \in PageContents }
                   \cup { NoResult } :
            /\ call' = ThenSleep(Fetched(url, r.ok, r.text))
            /\ IF D3Accepts(r)
               THEN /\ files' = [files EXCEPT ![slug] = r.text]
                    /\ touched' = touched \cup {slug}
                    /\ mem' = [i \in 1..Len(mem) |->
                                 IF mem[i].slug = slug
                                 THEN D3Update(mem[i], r.text, url) ELSE mem[i]]
               ELSE UNCHANGED <<files, mem, touched>>
    /\ idx' = idx + 1
    /\ UNCHANGED <<aux, df, log, hasLog, stage, todo, runs>>

D3Save == SaveStage("03c", Len(todo), mem)

\* an exception outside the try blocks of scrape_with_browser / scrape_with_playwright
\* (creating the agent, launching the browser) ends main before the log is written
StageAbort ==
    /\ stage \in {"03b", "03c"}
    /\ idx <= (IF stage = "03b" THEN Len(JOURNALS_NEEDING_BROWSER) ELSE Len(todo))
    /\ stage' = "idle"
    /\ mem' = <<>>
    /\ todo' = <<>>
    /\ idx' = 1
    /\ call' = NoCall
    /\ touched' = {}
    /\ UNCHANGED <<aux, df, log, hasLog, files, runs>>

(* --------------------- fix scripts: 03d, 03e, 03f ------------------------ *)

E3Start == StartStage("03d", BySlug(log), <<>>)

E3Update(e, text, url) ==
    [e EXCEPT !.guidelines_url = url, !.text_length = text.len, !.method = "http-fixed"]

E3Accepts(r) == r.ok /\ r.text.len > 0 /\ r.text.len > MinTextLen

E3Journal ==
    /\ stage = "03d" /\ idx <= Len(JOURNAL_FIXES)
    /\ LET fix  == JOURNAL_FIXES[idx]
           slug == fix.slug
       IN \E r \in HttpResults :
            /\ call' = Fetched(fix.url, r.ok, r.text)
            /\ IF E3Accepts(r)
               THEN /\ files' = [files EXCEPT ![slug] = r.text]
                    /\ touched' = touched \cup {slug}
                    /\ mem' = [i \in 1..Len(mem) |->
                                 IF mem[i].slug = slug
                                 THEN E3Update(mem[i], r.text, fix.url) ELSE mem[i]]
               ELSE UNCHANGED <<files, mem, touched>>
    /\ idx' = idx + 1
    /\ UNCHANGED <<aux, df, log, hasLog, stage, todo, runs>>

E3Save == SaveStage("03d", Len(JOURNAL_FIXES), mem)

\* the update of 03e and 03f: the first entry of scrape_log with the slug
AgentFix(e, text, url) ==
    [e EXCEPT !.guidelines_url = url, !.text_length = text.len, !.method = "browser-use",
              !.error = None]

FixFirst(l, slug, text, url) ==
    LET k == FirstWithSlug(l, slug)
    IN [i \in 1..Len(l) |-> IF i = k THEN AgentFix(l[i], text, url) ELSE l[i]]

K3Accepts(r) == r.ok

\* 03f scrape_journal: len(text) > 500 and "failed" not in text.lower()[:100]
R3Accepts(r) == r.ok /\ r.text.len > MinTextLen /\ ~r.text.fail

\* 03e and 03f need no log to start: they open it only once a text is accepted
FixStart(name) ==
    /\ CanStart
    /\ stage' = name
    /\ idx' = 1
    /\ runs' = runs + 1
    /\ UNCHANGED <<aux, df, log, hasLog, files, mem, todo, call, touched>>

\* an accepted text is written, then the log is loaded, updated and saved at once;
\* without a log file the open raises after the text was written
FixJournal(name, slug, url, r, accepted) ==
    /\ stage = name /\ idx = 1
    /\ call' = Fetched(url, r.ok, r.text)
    /\ IF accepted
       THEN /\ files' = [files EXCEPT ![slug] = r.text]
            /\ log' = IF hasLog THEN FixFirst(log, slug, r.text, url) ELSE log
            /\ touched' = touched \cup {slug}
       ELSE UNCHANGED <<files, log, touched>>
    /\ idx' = idx + 1
    /\ UNCHANGED <<aux, df, hasLog, stage, mem, todo, runs>>

FixEnd(name) ==
    /\ stage = name /\ idx > 1
    /\ stage' = "idle"
    /\ idx' = 1
    /\ call' = NoCall
    /\ touched' = {}
    /\ UNCHANGED <<aux, df, log, hasLog, files, mem, todo, runs>>

K3Start == FixStart("03e")
K3Journal == \E r \in AgentResults : FixJournal("03e", SlugK, KargerUrl, r, K3Accepts(r))
K3End == FixEnd("03e")

\* JOURNALS_TO_FIX holds one journal
R3Start == FixStart("03f")
R3Journal ==
    \E r \in AgentResults :
      FixJournal("03f", JOURNALS_TO_FIX[1].slug, JOURNALS_TO_FIX[1].url, r, R3Accepts(r))
R3End == FixEnd("03f")

(* ------------- link-follow augmenter: 03c_follow_guideline_links.py ------------- *)

RECURSIVE Dedup(_, _)
Dedup(l, seen) ==
    IF l = <<>> THEN seen
    ELSE Dedup(Tail(l), IF \E i \in 1..Len(seen) : seen[i] = Head(l)
                        THEN seen ELSE Append(seen, Head(l)))

PatternMatches(text, p) ==
    LET hits == SelectSeq(text.refs, LAMBDA r : p \in r.pats)
    IN [i \in 1..Len(hits) |-> hits[i].url]

\* pattern by pattern, the matches in text order, without repetition
extract_guideline_links(text) ==
    Dedup(PatternMatches(text, 1) \o PatternMatches(text, 2)
          \o PatternMatches(text, 3) \o PatternMatches(text, 4), <<>>)

\* len("https://" + host + path) of the links of the model
UrlLen(u) == IF u = LinkA THEN 27 ELSE 28

\* the fourth pattern matches a URL holding one of its path fragments wherever it stands
SeparatorRef(link) ==
    [url |-> link, pats |-> IF link.path \in {"/for-authors", "/instructions"} THEN {4} ELSE {}]

\* "\n\n--- Additional Guidelines from {link} ---\n\n{text}"
Piece(link, text) ==
    [len |-> 39 + UrlLen(link) + text.len,
     refs |-> <<SeparatorRef(link)>> \o text.refs,
     fail |-> text.fail]

RECURSIVE JoinPieces(_)
JoinPieces(ps) ==
    IF Len(ps) = 1 THEN ps[1]
    ELSE LET rest == JoinPieces(Tail(ps))
         IN [len |-> ps[1].len + 1 + rest.len, refs |-> ps[1].refs \o rest.refs,
             fail |-> ps[1].fail \/ rest.fail]

Concat(t, u) ==
    [len |-> t.len + u.len, refs |-> t.refs \o u.refs, fail |-> t.fail \/ u.fail]

\* the links of an artifact without the limit on the number of fetches
AllFreshLinks(text, guidelines_url) ==
    LET links == extract_guideline_links(text)
    IN IF guidelines_url # NoUrl
       THEN SelectSeq(links, LAMBDA l : l.path # guidelines_url.path)
       ELSE links

\* the links process_journal fetches for an artifact and the entry's guidelines_url
LinksToFetch(text, guidelines_url) ==
    LET links == extract_guideline_links(text)
        fresh == IF guidelines_url # NoUrl
                 THEN SelectSeq(links, LAMBDA l : l.path # guidelines_url.path)
                 ELSE links
    IN SubSeq(fresh, 1, Min(MaxLinksFetched, Len(fresh)))

AugResult(slug, status, n, fetched) ==
    [slug |-> slug, status |-> status, new_text_length |-> n, links_fetched |-> fetched]

\* `text and len(text) > 500` on what fetch_url returned
FKeeps(r) == r.ok /\ r.text.len > 0 /\ r.text.len > MinTextLen

FStart == StartStage("aug", log, <<>>)

\* one iteration of the loop of main over scrape_log
FJournal ==
    /\ stage = "aug" /\ idx <= Len(mem)
    /\ LET entry == mem[idx]
           slug  == entry.slug
           text  == files[slug]
           links == LinksToFetch(text, entry.guidelines_url)
       IN IF entry.status # "success"
          THEN UNCHANGED <<files, todo, call, touched>>
          ELSE IF text = NoFile
          THEN /\ todo' = Append(todo, AugResult(slug, "no_file", 0, 0))
               /\ UNCHANGED <<files, call, touched>>
          ELSE IF links = <<>>
          THEN /\ todo' = Append(todo, AugResult(slug, "no_new_links", text.len, 0))
               /\ UNCHANGED <<files, call, touched>>
          ELSE \E rs \in [1..Len(links) -> LinkFetchResults] :
                 LET kept   == SelectSeq([i \in 1..Len(links) |-> [link |-> links[i], r |-> rs[i]]],
                                         LAMBDA x : FKeeps(x.r))
                     pieces == [i \in 1..Len(kept) |-> Piece(kept[i].link, kept[i].r.text)]
                     combined == Concat(text, JoinPieces(pieces))
                 IN /\ call' = [Call(NotAsked, NotAsked, links, "fetch", kept # <<>>,
                                     BodyNone, NoFile, NoUrl)
                                EXCEPT !.probes = rs]
                    /\ IF kept # <<>>
                       THEN /\ files' = [files EXCEPT ![slug] = combined]
                            /\ touched' = touched \cup {slug}
                            /\ todo' = Append(todo, AugResult(slug, "updated", combined.len,
                                                              Len(kept)))
                       ELSE /\ todo' = Append(todo, AugResult(slug, "links_failed",
                                                              text.len, 0))
                            /\ UNCHANGED <<files, touched>>
    /\ idx' = idx + 1
    /\ UNCHANGED <<aux, df, log, hasLog, stage, mem, runs>>

\* slug_to_result = {r["slug"]: r for r in results}: the last result of a slug
ResultOf(results, slug) ==
    LET k == CHOOSE i \in 1..Len(results) :
               results[i].slug = slug /\ \A j \in (i + 1)..Len(results) : results[j].slug # slug
    IN results[k]

FApply(entries, results) ==
    [i \in 1..Len(entries) |->
       IF /\ \E j \in 1..Len(results) : results[j].slug = entries[i].slug
          /\ ResultOf(results, entries[i].slug).status = "updated"
       THEN [entries[i] EXCEPT
               !.text_length = ResultOf(results, entries[i].slug).new_text_length,
               !.additional_links_fetched = ResultOf(results, entries[i].slug).links_fetched]
       ELSE entries[i]]

FSave == SaveStage("aug", Len(mem), FApply(mem, todo))

(* ------------------ extraction: 04_analyze_guidelines.py ----------------- *)

\* scores are fractions num/den; Unit is the numerator of a per-quote score of 1.0
Unit == 840
LowConfidence == 70
MaxQuotes == 3

Max(a, b) == IF a > b THEN a ELSE b

\* longest common subsequence: the matches an Indel alignment keeps
RECURSIVE LCS(_, _)
LCS(s, t) ==
    IF s = <<>> \/ t = <<>> THEN 0
    ELSE IF Head(s) = Head(t) THEN 1 + LCS(Tail(s), Tail(t))
    ELSE Max(LCS(Tail(s), t), LCS(s, Tail(t)))

\* fuzz.ratio / 100 in units of 1/Unit: 2 * matches / (len(s) + len(t))
Ratio(s, t) ==
    IF Len(s) + Len(t) = 0 THEN Unit
    ELSE (2 * LCS(s, t) * Unit) \div (Len(s) + Len(t))

\* the windows of hay a needle of length m is aligned with: every substring of
\* length m, and the shorter ones at both ends
Windows(hay, m) ==
    { SubSeq(hay, Max(1, i), Min(Len(hay), i + m - 1)) : i \in (2 - m)..Len(hay) }

\* fuzz.partial_ratio / 100 in units of 1/Unit: the best ratio of the shorter
\* string against a window of the longer one
partial_ratio(s1, s2) ==
    LET needle == IF Len(s1) <= Len(s2) THEN s1 ELSE s2
        hay    == IF Len(s1) <= Len(s2) THEN s2 ELSE s1
        scores == { Ratio(needle, w) : w \in Windows(hay, Len(needle)) }
    IN IF needle = <<>> THEN (IF hay = <<>> THEN Unit ELSE 0)
       ELSE CHOOSE x \in scores : \A y \in scores : x >= y

RECURSIVE SumScores(_, _)
SumScores(quotes, source_text) ==
    IF quotes = <<>> THEN 0
    ELSE partial_ratio(LowerAll(Head(quotes)), LowerAll(source_text))
         + SumScores(Tail(quotes), source_text)

\* validate_quotes comparing the quotes as they are, without lowering them
validate_quotes_cased(quotes, source_text) ==
    IF quotes = <<>> THEN [num |-> Unit, den |-> Unit]
    ELSE LET RECURSIVE Sum(_)
             Sum(qs) == IF qs = <<>> THEN 0
                        ELSE partial_ratio(Head(qs), source_text) + Sum(Tail(qs))
         IN [num |-> Sum(quotes), den |-> Len(quotes) * Unit]

\* validate_quotes: 1.0 without quotes, else sum(scores) / len(scores)
validate_quotes(quotes, source_text) ==
    IF quotes = <<>> THEN [num |-> Unit, den |-> Unit]
    ELSE [num |-> SumScores(quotes, source_text), den |-> Len(quotes) * Unit]

\* `quote_validation < 0.8`
BelowQuoteThreshold(q) == q.num * 10 < 8 * q.den

\* flags raised at the thresholds themselves too
review_flags_inclusive(confidence_score, quote_validation) ==
    (IF confidence_score <= LowConfidence THEN <<"low_confidence">> ELSE <<>>)
    \o (IF quote_validation.num * 10 <= 8 * quote_validation.den
        THEN <<"quote_validation_warning">> ELSE <<>>)

\* flags of main: the flags that ";".join puts in the row, <<>> standing for None
review_flags(confidence_score, quote_validation) ==
    (IF confidence_score < LowConfidence THEN <<"low_confidence">> ELSE <<>>)
    \o (IF BelowQuoteThreshold(quote_validation)
        THEN <<"quote_validation_warning">> ELSE <<>>)

\* the characters of the artifacts of the analysis stage
SourceChars == <<"a", "b", "c", "d">>
Src == [len |-> 600, refs |-> <<>>, fail |-> FALSE, chars |-> SourceChars]

\* quotes the model returns: in the source up to case, partly in it, not in it
QuoteIn   == <<"B", "c">>
QuotePart == <<"a", "x", "c">>
QuoteOut  == <<"x", "y">>
Quotes == {QuoteIn, QuoteOut}

QuoteLists == UNION { [1..n -> Quotes] : n \in 0..MaxQuotes }

\* confidence_score in hundredths
ConfidenceValues == {69, 70, 100}

\* what the schema-constrained call returns: a GuidelinesAnalysis, cut down to
\* the fields the stage computes with
Analyses ==
    [confidence_score : ConfidenceValues,
     pilot_study_quotes : QuoteLists,
     feasibility_study_quotes : {<<>>, <<QuotePart>>, <<QuoteIn, QuoteIn, QuoteIn>>}]

\* analyze_journal: the response and the validation of all its quotes
analyze_journal(text, response) ==
    [response |-> response,
     quote_validation |->
       validate_quotes(response.pilot_study_quotes \o response.feasibility_study_quotes,
                       text.chars)]

\* the row of a failed extraction with more than the name and the error
ErrorRowWithLength(journal_name, text) ==
    [journal_name |-> journal_name, error |-> "extraction failed", text_length |-> text.len]

\* the row main appends in the except branch
ErrorRow(journal_name, text) ==
    [journal_name |-> journal_name, error |-> "extraction failed"]

\* the row main appends after a successful extraction
ResultRow(scrape_info, text, a) ==
    [journal_name |-> scrape_info.journal_name,
     guidelines_url |-> scrape_info.guidelines_url,
     text_length |-> text.len,
     confidence_score |-> a.response.confidence_score,
     pilot_study_quotes |-> a.response.pilot_study_quotes,
     feasibility_study_quotes |-> a.response.feasibility_study_quotes,
     quote_validation_score |-> a.quote_validation,
     review_flags |-> review_flags(a.response.confidence_score, a.quote_validation)]

to_analyze(l) == SelectSeq(l, LAMBDA r : r.status = "success")

\* main up to the loop: nothing happens without a log or without a success entry
A4Start ==
    /\ CanStart
    /\ hasLog
    /\ runs' = runs + 1
    /\ IF to_analyze(log) = <<>>
       THEN UNCHANGED <<stage, todo, mem, idx>>
       ELSE /\ stage' = "04"
            /\ todo' = to_analyze(log)
            /\ mem' = <<>>
            /\ idx' = 1
    /\ UNCHANGED <<df, log, hasLog, files, call, touched, csv, hasCsv, arg, ret>>

\* genai.Client() or instructor.from_genai raising ends main before the loop
A4ClientError ==
    /\ stage = "04" /\ idx = 1 /\ call = NoCall
    /\ stage' = "idle"
    /\ todo' = <<>>
    /\ UNCHANGED <<df, log, hasLog, files, mem, idx, call, touched, runs, csv, hasCsv, arg, ret>>

\* one iteration of the loop of main
A4Journal ==
    /\ stage = "04" /\ idx <= Len(todo)
    /\ LET scrape_info == todo[idx]
           text == files[scrape_info.slug]
       IN IF text = NoFile
          THEN call' = NoCall /\ UNCHANGED mem
          ELSE \/ /\ call' = [Fetched(NoUrl, FALSE, NoFile) EXCEPT !.exit = "extract"]
                  /\ mem' = Append(mem, ErrorRow(scrape_info.journal_name, text))
               \/ \E response \in Analyses :
                    /\ call' = [Fetched(NoUrl, TRUE, NoFile) EXCEPT !.exit = "extract"]
                    /\ mem' = Append(mem, ResultRow(scrape_info, text,
                                                    analyze_journal(text, response)))
    /\ idx' = idx + 1
    /\ UNCHANGED <<df, log, hasLog, files, stage, todo, touched, runs, csv, hasCsv, arg, ret>>

\* pd.DataFrame(results).to_csv(OUTPUT_FILE)
A4Save ==
    /\ stage = "04" /\ idx > Len(todo)
    /\ csv' = mem
    /\ hasCsv' = TRUE
    /\ stage' = "idle"
    /\ mem' = <<>>
    /\ todo' = <<>>
    /\ idx' = 1
    /\ call' = NoCall
    /\ UNCHANGED <<df, log, hasLog, files, touched, runs, arg, ret>>

\* a ledger of two journals after the scraping stages
AnalysisEntry(name, slug, status) ==
    [NewEntry(name, slug, HomeUrl) EXCEPT
       !.status = status,
       !.guidelines_url = IF status = "success" THEN HomeUrl ELSE NoUrl,
       !.method = IF status = "success" THEN "http" ELSE None,
       !.text_length = IF status = "success" THEN Src.len ELSE 0,
       !.error = IF status = "success" THEN None
                 ELSE "HTTP scraping failed, needs browser automation"]

A4Init ==
    /\ df = <<>>
    /\ \E sa, sk \in {"success", "needs_browser"} :
         log = << AnalysisEntry(<<"A">>, SlugA, sa), AnalysisEntry(<<"K">>, SlugK, sk) >>
    /\ hasLog = TRUE
    /\ \E fa \in {NoFile, Src} : files = [s \in Slugs |-> IF s = SlugA THEN fa ELSE Src]
    /\ stage = "idle"
    /\ mem = <<>>
    /\ todo = <<>>
    /\ idx = 1
    /\ call = NoCall
    /\ touched = {}
    /\ runs = 0
    /\ csv = <<>>
    /\ hasCsv = FALSE
    /\ arg = <<>>
    /\ ret = NoUrl

\* the first run of the analysis
A4First == ~hasCsv /\ runs = 0 /\ A4Start

NextA ==
    \/ A4First
    \/ A4ClientError
    \/ A4Journal
    \/ A4Save

SpecA == A4Init /\ [][NextA]_vars

(* ---------------------- functions run on their own -------------------- *)

MaxAnchors == 3

\* every variable of the pipeline at rest
AtRest ==
    /\ df = <<>>
    /\ log = <<>>
    /\ hasLog = FALSE
    /\ files = [s \in Slugs |-> NoFile]
    /\ mem = <<>>
    /\ todo = <<>>
    /\ idx = 1
    /\ call = NoCall
    /\ touched = {}
    /\ runs = 0
    /\ csv = <<>>
    /\ hasCsv = FALSE

Rest == <<df, log, hasLog, files, mem, todo, idx, call, touched, runs, csv, hasCsv>>

\* find_guidelines_link(html, base_url) on a page with up to MaxAnchors anchors
FindInit ==
    /\ AtRest
    /\ stage = "find"
    /\ \E n \in 0..MaxAnchors : arg \in [1..n -> Anchors]
    /\ ret = NoUrl

FindApply ==
    /\ stage = "find"
    /\ stage' = "found"
    /\ ret' = find_guidelines_link(Body(arg, FALSE, Txt(600)), HomeUrl)
    /\ UNCHANGED <<Rest, arg>>

SpecFind == FindInit /\ [][FindApply]_vars

\* scrape_with_playwright(url, slug): arg is the page content after loading
\* and the content after the second wait
PwPages == { Page(w, j, t) : w \in BOOLEAN, j \in BOOLEAN, t \in {Txt(20), Txt(500), Txt(501)} }

PwInit ==
    /\ AtRest
    /\ stage = "pw"
    /\ arg \in [1..2 -> PwPages]
    /\ ret = NoUrl

PwApply ==
    /\ stage = "pw"
    /\ stage' = "pwdone"
    /\ ret' = scrape_with_playwright(arg[1], arg[2])
    /\ UNCHANGED <<Rest, arg>>

SpecPw == PwInit /\ [][PwApply]_vars

\* the links process_journal fetches: arg is the artifact and the guidelines_url
MaxRefs == 4

LinkC == [host |-> "pub.com", path |-> "/author-guidelines"]
LinkD == [host |-> "other.org", path |-> "/for-authors"]

TextRefs ==
    { [url |-> LinkA, pats |-> {1, 4}], [url |-> LinkB, pats |-> {4}],
      [url |-> LinkC, pats |-> {2, 4}], [url |-> LinkD, pats |-> {4}],
      [url |-> LinkB, pats |-> {}] }

LinksInit ==
    /\ AtRest
    /\ stage = "links"
    /\ \E n \in 0..MaxRefs : \E refs \in [1..n -> TextRefs] :
         \E g \in {NoUrl, LinkA, [host |-> "j.org", path |-> "/journal"]} :
           arg = [text |-> [len |-> 600, refs |-> refs, fail |-> FALSE], guidelines_url |-> g]
    /\ ret = NoUrl

LinksApply ==
    /\ stage = "links"
    /\ stage' = "linked"
    /\ ret' = LinksToFetch(arg.text, arg.guidelines_url)
    /\ UNCHANGED <<Rest, arg>>

SpecLinks == LinksInit /\ [][LinksApply]_vars

\* slugify(text) on names of up to MaxNameLen characters, alone or after a run
\* of letters one short of the cut
MaxNameLen == 3

NameChars == {"A", "a", "0", "_", "é", " ", "-", "!"}

Padding(n) == [i \in 1..n |-> "a"]

SlugInit ==
    /\ AtRest
    /\ stage = "slug"
    /\ \E n \in 0..MaxNameLen : \E s \in [1..n -> NameChars] :
         \E p \in {0, SlugMaxLen - 1} : arg = Padding(p) \o s
    /\ ret = NoUrl

SlugApply ==
    /\ stage = "slug"
    /\ stage' = "slugged"
    /\ ret' = slugify(arg)
    /\ UNCHANGED <<Rest, arg>>

SpecSlug == SlugInit /\ [][SlugApply]_vars

(* ---------------- 02_discover_urls.py: get_issn_variants ---------------- *)

\* str.split(","): the pieces between the commas, empty ones included
RECURSIVE SplitFrom(_, _)
SplitFrom(s, piece) ==
    IF s = <<>> THEN <<piece>>
    ELSE IF Head(s) = "," THEN <<piece>> \o SplitFrom(Tail(s), <<>>)
    ELSE SplitFrom(Tail(s), Append(piece, Head(s)))

Split(s) == SplitFrom(s, <<>>)

RECURSIVE StripSpaces(_)
StripSpaces(s) ==
    IF s # <<>> /\ Head(s) = " " THEN StripSpaces(Tail(s))
    ELSE IF s # <<>> /\ s[Len(s)] = " " THEN StripSpaces(SubSeq(s, 1, Len(s) - 1))
    ELSE s

\* str.replace(c, "")
Without(s, c) == SelectSeq(s, LAMBDA x : x # c)

\* issn_part.strip().replace(" ", "")
issn_clean(issn_part) == Without(StripSpaces(issn_part), " ")

HasHyphen(s) == \E i \in 1..Len(s) : s[i] = "-"

IssnLen == 8

\* what one piece of the field appends to variants
VariantsOfPart(issn_part) ==
    LET c == issn_clean(issn_part)
    IN IF c = <<>> THEN <<>>
       ELSE IF ~HasHyphen(c) /\ Len(c) = IssnLen
       THEN <<c, SubSeq(c, 1, 4) \o <<"-">> \o SubSeq(c, 5, Len(c))>>
       ELSE IF HasHyphen(c)
       THEN <<c, Without(c, "-")>>
       ELSE <<c>>

RECURSIVE VariantsOfParts(_)
VariantsOfParts(parts) ==
    IF parts = <<>> THEN <<>>
    ELSE VariantsOfPart(Head(parts)) \o VariantsOfParts(Tail(parts))

\* the list get_issn_variants builds before it removes the duplicates
issn_variant_list(issn) == VariantsOfParts(Split(issn))

\* list(set(variants)): the distinct elements, in any order
ListOfSet(l) ==
    LET S == { l[i] : i \in 1..Len(l) }
    IN { f \in [1..Cardinality(S) -> S] : \A i, j \in 1..Cardinality(S) : i # j => f[i] # f[j] }

\* the result that keeps the list as it was built
get_issn_variant_lists(issn) == { issn_variant_list(issn) }

get_issn_variants(issn) == ListOfSet(issn_variant_list(issn))

\* the pieces an ISSN field is made of: the two forms of one ISSN, with spaces
\* around and inside, an empty piece, a piece of 7 characters, another ISSN
\* with a check character X, a lone hyphen
MaxParts == 2

IssnParts ==
    { <<"1", "2", "3", "4", "5", "6", "7", "8">>,
      <<"1", "2", "3", "4", "-", "5", "6", "7", "8">>,
      <<" ", "1", "2", "3", "4", "-", "5", "6", "7", "8", " ">>,
      <<>>,
      <<"1", "2", "3", "4", "5", "6", "7">>,
      <<"1", "2", "3", "4", " ", "5", "6", "7", "8">>,
      <<"8", "7", "6", "5", "-", "4", "3", "2", "X">>,
      <<"-">> }

RECURSIVE JoinParts(_)
JoinParts(parts) ==
    IF parts = <<>> THEN <<>>
    ELSE IF Len(parts) = 1 THEN parts[1]
    ELSE parts[1] \o <<",">> \o JoinParts(Tail(parts))

IssnInit ==
    /\ AtRest
    /\ stage = "issn"
    /\ \E n \in 0..MaxParts : \E parts \in [1..n -> IssnParts] : arg = JoinParts(parts)
    /\ ret = NoUrl

IssnApply ==
    /\ stage = "issn"
    /\ stage' = "variants"
    /\ ret' \in get_issn_variants(arg)
    /\ UNCHANGED <<Rest, arg>>

SpecIssn == IssnInit /\ [][IssnApply]_vars

(* ------------------------------ behaviour ------------------------------ *)

Init ==
    /\ \E n \in 1..MaxJournals : df \in [1..n -> Rows]
    /\ \A i, j \in 1..Len(df) : i # j => df[i].title # df[j].title
    /\ log = <<>>
    /\ hasLog = FALSE
    /\ files = [s \in Slugs |-> NoFile]
    /\ stage = "idle"
    /\ mem = <<>>
    /\ todo = <<>>
    /\ idx = 1
    /\ call = NoCall
    /\ touched = {}
    /\ runs = 0
    /\ csv = <<>>
    /\ hasCsv = FALSE
    /\ arg = <<>>
    /\ ret = NoUrl

Next ==
    \/ T1Start
    \/ T1Journal
    \/ T1Crash
    \/ T1Save
    \/ B3Start
    \/ B3Journal
    \/ B3Save
    \/ D3Start
    \/ D3Journal
    \/ D3Save
    \/ StageAbort
    \/ E3Start
    \/ E3Journal
    \/ E3Save
    \/ K3Start
    \/ K3Journal
    \/ K3End
    \/ R3Start
    \/ R3Journal
    \/ R3End
    \/ FStart
    \/ FJournal
    \/ FSave

Spec == Init /\ [][Next]_vars

\* the first tier-1 run alone, from an empty data directory
T1First == ~hasLog /\ T1Start

NextT1 ==
    \/ T1First
    \/ T1Journal
    \/ T1Crash
    \/ T1Save

SpecT1 == Init /\ [][NextT1]_vars

\* runs of the augmenter alone, over a web that answers every URL the same way
\* each time: arg is the answer of each link
AugEntry(name, slug, text) ==
    [NewEntry(name, slug, HomeUrl) EXCEPT
       !.status = "success", !.guidelines_url = HomeUrl, !.method = "http",
       !.text_length = IF text = NoFile THEN 600 ELSE text.len]

AugInit ==
    /\ df = <<>>
    /\ \E ta \in {TxtGuide, Txt(600)} : \E tk \in {TxtGuide, TxtMore, NoFile} :
         /\ files = [s \in Slugs |-> IF s = SlugA THEN ta ELSE tk]
         /\ log = << AugEntry(<<"A">>, SlugA, ta), AugEntry(<<"K">>, SlugK, tk) >>
    /\ hasLog = TRUE
    /\ stage = "idle"
    /\ mem = <<>>
    /\ todo = <<>>
    /\ idx = 1
    /\ call = NoCall
    /\ touched = {}
    /\ runs = 0
    /\ csv = <<>>
    /\ hasCsv = FALSE
    /\ arg \in [{LinkA, LinkB} -> LinkFetchResults]
    /\ ret = NoUrl

\* an iteration of the augmenter in which every link answers as arg says
AugJournal ==
    /\ FJournal
    /\ \A i \in 1..Len(call'.reqs) : call'.probes[i] = arg[call'.reqs[i]]

NextAug ==
    \/ FStart
    \/ AugJournal
    \/ FSave

SpecAug == AugInit /\ [][NextAug]_vars

\* the save of the ledger at the end of a stage, step by step on the file, with
\* another process that reads the file: log is the content of scraping_log.json,
\* mem the entries the stage dumps, arg the content before the save, ret what
\* the reader found
Ledgers ==
    { << AnalysisEntry(<<"A">>, SlugA, sa), AnalysisEntry(<<"K">>, SlugK, sk) >> :
        sa \in {"success", "needs_browser"}, sk \in {"success", "needs_browser"} }

SaveInit ==
    /\ df = <<>>
    /\ log \in Ledgers
    /\ hasLog = TRUE
    /\ files = [s \in Slugs |-> Src]
    /\ stage = "save"
    /\ mem \in Ledgers
    /\ todo = <<>>
    /\ idx = 0
    /\ call = NoCall
    /\ touched = {}
    /\ runs = 1
    /\ csv = <<>>
    /\ hasCsv = FALSE
    /\ arg = log
    /\ ret = NoUrl

SaveFrame == <<df, hasLog, files, mem, todo, call, touched, runs, csv, hasCsv, arg>>

\* open(LOG_FILE, "w") truncates the file
SaveOpen ==
    /\ stage = "save"
    /\ stage' = "dump"
    /\ log' = <<>>
    /\ UNCHANGED <<SaveFrame, idx, ret>>

\* json.dump writes into the buffer of f; the buffer reaches the file in
\* pieces, the text of the first idx entries being in the file so far
SaveFlush ==
    /\ stage = "dump"
    /\ \E k \in (idx + 1)..Len(mem) :
         /\ idx' = k
         /\ log' = SubSeq(mem, 1, k)
    /\ UNCHANGED <<SaveFrame, stage, ret>>

\* leaving the with block closes f: the rest of the text reaches the file
SaveClose ==
    /\ stage = "dump"
    /\ stage' = "idle"
    /\ idx' = Len(mem)
    /\ log' = mem
    /\ UNCHANGED <<SaveFrame, ret>>

\* another process reads the file: the entries in it, and whether the text
\* is a whole JSON document
ReadLog ==
    /\ ret' = [entries |-> log, whole |-> stage # "dump"]
    /\ UNCHANGED <<SaveFrame, log, stage, idx>>

NextSave ==
    \/ SaveOpen
    \/ SaveFlush
    \/ SaveClose
    \/ ReadLog

SpecSave == SaveInit /\ [][NextSave]_vars

(* ------------------------------- properties ------------------------------ *)

\* the same journal in two versions of the ledger
SameJournal(e, f) == e.slug = f.slug /\ e.journal_name = f.journal_name

LaterStages == {"03b", "03c", "03d", "03e", "03f", "aug"}

\* the entry and the homepage of the journal the last tier-1 call was made for
T1Entry == mem[idx - 1]
T1Home == df[idx - 1].homepage_url

\* C1: an entry persisted with status success is never persisted afterwards with
\* another status, whatever stage runs next.
SuccessIsKept ==
    \A i \in 1..Len(log) :
      log[i].status = "success" =>
        \A j \in 1..Len(log') :
          SameJournal(log'[j], log[i]) => log'[j].status = "success"

C1_SuccessIsKept == [][SuccessIsKept]_vars

\* C2: a stage after tier 1 never lowers the text_length of a success entry, and
\* never brings it to 0.
LengthNeverShrinks ==
    stage \in LaterStages =>
      \A i \in 1..Len(log) :
        log[i].status = "success" =>
          \A j \in 1..Len(log') :
            SameJournal(log'[j], log[i]) =>
              /\ log'[j].text_length >= log[i].text_length
              /\ (log'[j].text_length = 0 => log[i].text_length = 0)

C2_LengthNeverShrinks == [][LengthNeverShrinks]_vars

\* C3: the ledger a stage after tier 1 writes has at least as many entries as the
\* ledger it read, and every entry whose content the run did not accept is the
\* entry it read.
MergeKeepsEntries ==
    stage \in LaterStages =>
      /\ Len(log') >= Len(log)
      /\ \A i \in 1..Len(log) :
           log[i].slug \notin (touched \cup touched') =>
             i <= Len(log') /\ log'[i] = log[i]

C3_MergeKeepsEntries == [][MergeKeepsEntries]_vars

\* C4: no two entries of the persisted ledger have the same slug.
C4_OneEntryPerSlug ==
    \A i, j \in 1..Len(log) : i # j => log[i].slug # log[j].slug

\* C5: when no stage is running, every success entry has a text artifact under
\* its slug and its text_length is the length of that artifact.
C5_LengthMatchesArtifact ==
    stage = "idle" =>
      \A i \in 1..Len(log) :
        log[i].status = "success" =>
          /\ files[log[i].slug] # NoFile
          /\ log[i].text_length = files[log[i].slug].len

\* C6: a tier-2/3 stage (03b, 03c, 03e, 03f) that obtains a text shorter than 500
\* characters writes no artifact and updates no ledger entry.
ShortTextRejected ==
    (/\ stage \in {"03b", "03c", "03e", "03f"}
     /\ idx' = idx + 1
     /\ call'.ok
     /\ call'.text.len < MinTextLen)
    => (files' = files /\ mem' = mem /\ log' = log)

C6_ShortTextRejected == [][ShortTextRejected]_vars

\* C7: after a homepage answer 403 in tier 1, the homepage is the only URL that
\* was requested, scrape_journal_http has returned the blocked outcome, and the
\* journal's entry has status needs_browser, an error, no guidelines_url, no
\* method and text_length 0; the entry is persisted as it stands.
C7_BlockedState ==
    (stage = "t1" /\ call.home.status = 403) =>
      /\ call.reqs = <<T1Home>>
      /\ call.exit = "blocked"
      /\ ~call.ok
      /\ T1Entry.status = "needs_browser"
      /\ T1Entry.error # None
      /\ T1Entry.guidelines_url = NoUrl
      /\ T1Entry.method = None
      /\ T1Entry.text_length = 0

ResultsArePersisted == (stage = "t1" /\ idx > Len(df) /\ stage' = "idle") => log' = mem

C7_Blocked == []C7_BlockedState /\ [][ResultsArePersisted]_vars

C7_Witness ==
    /\ stage = "t1"
    /\ call.home.status = 403
    /\ T1Entry.status = "needs_browser"

\* C8: in tier 1, when the homepage answers 200, the resolver yields a URL and
\* that URL answers 200, its response is the result whether or not it holds a
\* keyword, no path is probed, and the entry has status success, method http
\* and the resolved URL as guidelines_url.
C8_LinkAcceptedUnchecked ==
    (stage = "t1" /\ call.home.status = 200 /\ call.link.status = 200) =>
      LET g == find_guidelines_link(call.home.body, T1Home)
      IN /\ g # NoUrl
         /\ call.exit = "link"
         /\ call.ok
         /\ call.html = call.link.body
         /\ call.text = extract_text(call.link.body)
         /\ call.url = g
         /\ call.reqs = <<T1Home, g>>
         /\ T1Entry.status = "success"
         /\ T1Entry.method = "http"
         /\ T1Entry.guidelines_url = g
         /\ T1Entry.text_length = call.text.len

C8_Witness ==
    /\ stage = "t1"
    /\ call.home.status = 200
    /\ call.link.status = 200
    /\ ~call.link.body.kw
    /\ T1Entry.status = "success"
    /\ T1Entry.guidelines_url = urljoin(T1Home, AnchorGuide.href)

\* C9: in tier 1, a homepage answer 200 always ends in a result and an entry
\* with status success, whatever the later requests do.
C9_Homepage200Succeeds ==
    (stage = "t1" /\ call.home.status = 200) =>
      call.ok /\ T1Entry.status = "success"

\* C10: in tier 1, when the homepage answered 200 and neither the candidate link
\* nor a probe was accepted, the html and text returned are those of the homepage
\* response and guidelines_url is the homepage URL.
C10_FallbackIsHomepage ==
    (stage = "t1" /\ call.exit = "fallback") =>
      /\ call.html = call.home.body
      /\ call.text = extract_text(call.home.body)
      /\ call.url = T1Home

\* C11: in tier 1, a homepage answer whose status is neither 200 nor 403 ends
\* in the fallback: the homepage content is the result and guidelines_url
\* is the homepage URL.
C11_SoftFailureFallsBack ==
    (stage = "t1" /\ call.home.status > 0 /\ call.home.status \notin {200, 403}) =>
      /\ call.ok
      /\ call.exit = "fallback"
      /\ call.html = call.home.body
      /\ call.url = T1Home

\* the probes of the last tier-1 call that were answered with status 200 and a
\* guideline keyword in the body
T1Hits == { i \in 1..Len(GUIDELINES_PATHS) : call.probes[i].status = 200 /\ call.probes[i].body.kw }
T1FirstHit == CHOOSE i \in T1Hits : \A j \in T1Hits : i <= j
T1Prefix == IF call.link = NotAsked THEN <<T1Home>> ELSE <<T1Home, call.reqs[2]>>

\* C12: the path probe returns host + p for the first p of GUIDELINES_PATHS
\* answered with 200 and a keyword in the body; a 200 answer without a keyword
\* is never returned as the probe result, a probe that raises is skipped, and
\* no probe is issued after the accepted one.
C12_FirstKeywordProbe ==
    (stage = "t1" /\ call.exit \in {"probe", "fallback"}) =>
      /\ call.exit = "probe" <=> T1Hits # {}
      /\ call.exit = "fallback" => \A i \in 1..Len(GUIDELINES_PATHS) : call.probes[i] # NotAsked
      /\ call.exit = "probe" =>
           /\ call.url = ProbeUrl(T1Home, T1FirstHit)
           /\ call.html = call.probes[T1FirstHit].body
           /\ call.html.kw
           /\ \A j \in 1..Len(GUIDELINES_PATHS) :
                (j <= T1FirstHit) <=> (call.probes[j] # NotAsked)
           /\ call.reqs = T1Prefix \o [j \in 1..T1FirstHit |-> ProbeUrl(T1Home, j)]
           /\ T1Entry.guidelines_url = call.url

C12_Witness ==
    /\ stage = "t1"
    /\ call.exit = "probe"
    /\ call.probes[1] \in {RespErr, Resp(200, BodyGeneric)}
    /\ call.url = ProbeUrl(T1Home, 2)

\* what find_guidelines_link tests on one hyperlink: a keyword in the lowered
\* text, or a path fragment in the lowered target
Qualifies(a) ==
    \/ \E k \in 1..Len(GUIDELINES_KEYWORDS) :
         Contains(LowerAll(Chars(a.text)), Chars(GUIDELINES_KEYWORDS[k]))
    \/ \E i \in 1..Len(GUIDELINES_PATHS) :
         Contains(LowerAll(Chars(a.href.path)), Chars(GUIDELINES_PATHS[i]))

\* C20: find_guidelines_link returns the first hyperlink, in document order,
\* whose text holds a keyword or whose target holds a path fragment (both
\* case-insensitively), resolved against base_url; it returns None exactly
\* when no hyperlink qualifies.
C20_FirstQualifyingLink ==
    stage = "found" =>
      LET hits == { i \in 1..Len(arg) : Qualifies(arg[i]) }
      IN /\ (ret = NoUrl) <=> (hits = {})
         /\ hits # {} =>
              \E i \in hits :
                /\ \A j \in hits : i <= j
                /\ ret.path = arg[i].href.path
                /\ ret.host = (IF arg[i].href.host = "" THEN HomeUrl.host ELSE arg[i].href.host)

C20_Witness ==
    /\ stage = "found"
    /\ Len(arg) = 3
    /\ arg[1] = AnchorNear
    /\ arg[2] = AnchorArea
    /\ arg[3] = AnchorAbs
    /\ ret = [host |-> HomeUrl.host, path |-> "/Authors-Area"]

\* the journal a step of 03b or 03c fetches
AttemptedSlug == IF stage = "03b" THEN JOURNALS_NEEDING_BROWSER[idx].slug ELSE todo[idx]

\* C13: 03b and 03c fetch a journal only if its ledger status at the start of
\* the run is not success, or its slug is in the re-scrape list.
OnlyEscalated ==
    (stage \in {"03b", "03c"} /\ idx' = idx + 1) =>
      \A i \in 1..Len(log) :
        log[i].slug = AttemptedSlug =>
          (log[i].status # "success" \/ AttemptedSlug \in RESCRAPE_SLUGS)

C13_OnlyEscalated == [][OnlyEscalated]_vars

\* a page content that holds one of the two challenge markers
HasMarker(c) == c.widget \/ c.jam

\* C14: when the loaded page holds a challenge marker and the page read after
\* the wait still holds one, scrape_with_playwright returns None.
C14_StillBlockedFails ==
    (stage = "pwdone" /\ HasMarker(arg[1]) /\ HasMarker(arg[2])) => ret = NoResult

\* C16: the augmenter fetches at most 3 links for an entry, pairwise distinct,
\* none with the path of the entry's guidelines_url.
C16_FetchedLinks ==
    stage = "linked" =>
      /\ Len(ret) <= 3
      /\ \A i, j \in 1..Len(ret) : i # j => ret[i] # ret[j]
      /\ arg.guidelines_url # NoUrl =>
           \A i \in 1..Len(ret) : ret[i].path # arg.guidelines_url.path

\* the artifact names four distinct links other than the guidelines_url
C16_Witness ==
    /\ stage = "linked"
    /\ Len(AllFreshLinks(arg.text, arg.guidelines_url)) = 4
    /\ Len(ret) = 3

\* the result process_journal returned for the i-th entry of the ledger the
\* augmenter read: results holds one result per success entry, in order
OwnResult(entries, results, i) ==
    results[Cardinality({ j \in 1..i : entries[j].status = "success" })]

\* C15: the augmenter rewrites the artifact only if a followed link answered
\* 200 with a text longer than 500 characters; an entry whose result is
\* no_file, no_new_links or links_failed, and every entry that is not success,
\* is persisted as it was read.
AugmenterFrame ==
    /\ (stage = "aug" /\ idx' = idx + 1 /\ files' # files) =>
          /\ \E i \in 1..Len(call'.reqs) :
               call'.probes[i].ok /\ call'.probes[i].text.len > 500
          /\ todo'[Len(todo')].status = "updated"
    /\ (stage = "aug" /\ idx' = idx + 1 /\ Len(todo') > Len(todo)
           /\ todo'[Len(todo')].status # "updated") => files' = files
    /\ (stage = "aug" /\ stage' = "idle") =>
          /\ Len(log') = Len(log)
          /\ \A i \in 1..Len(log) :
               (\/ log[i].status # "success"
                \/ OwnResult(log, todo, i).status # "updated") => log'[i] = log[i]

C15_AugmenterFrame == [][AugmenterFrame]_vars

\* the rows of the analysis stage that hold an analysis, by position
IsResult(r) == "review_flags" \in DOMAIN r
Has(flags, f) == \E i \in 1..Len(flags) : flags[i] = f

FlagsAreRight(r) ==
    LET flags == r.review_flags
        low   == r.confidence_score < 70
        warn  == r.quote_validation_score.num * 10 < 8 * r.quote_validation_score.den
    IN /\ Has(flags, "low_confidence") <=> low
       /\ Has(flags, "quote_validation_warning") <=> warn
       /\ \A i \in 1..Len(flags) : flags[i] \in {"low_confidence", "quote_validation_warning"}
       /\ Len(flags) = (IF low THEN 1 ELSE 0) + (IF warn THEN 1 ELSE 0)
       /\ (low /\ warn) => flags[1] = "low_confidence"
       /\ (flags = <<>>) <=> (~low /\ ~warn)

\* C17: a row's review_flags hold low_confidence exactly when confidence_score
\* is below 0.7 and quote_validation_warning exactly when quote_validation_score
\* is below 0.8, low_confidence first; they are None exactly when neither holds,
\* so the values 0.7 and 0.8 raise no flag.
C17_ReviewFlags ==
    /\ stage = "04" => \A i \in 1..Len(mem) : IsResult(mem[i]) => FlagsAreRight(mem[i])
    /\ \A i \in 1..Len(csv) : IsResult(csv[i]) => FlagsAreRight(csv[i])

\* a written row at both thresholds: confidence 0.7, four quotes of five in the source
C17_Witness ==
    /\ hasCsv
    /\ \E i \in 1..Len(csv) :
         /\ IsResult(csv[i])
         /\ csv[i].confidence_score = 70
         /\ csv[i].quote_validation_score.num * 10 = 8 * csv[i].quote_validation_score.den
         /\ csv[i].review_flags = <<>>

AllQuotes(r) == r.pilot_study_quotes \o r.feasibility_study_quotes

\* per quote of the model: its similarity to the source, both lowered; whether
\* it is in the source; whether it shares no character with it
SimilarityOf ==
    [q \in Quotes \cup {QuotePart} |-> partial_ratio(LowerAll(q), LowerAll(SourceChars))]
InSourceTable ==
    [q \in Quotes \cup {QuotePart} |-> Contains(LowerAll(SourceChars), LowerAll(q))]
NoOverlapTable ==
    [q \in Quotes \cup {QuotePart} |-> LCS(LowerAll(q), LowerAll(SourceChars)) = 0]

InSource(q) == InSourceTable[q]
NoOverlap(q) == NoOverlapTable[q]

RECURSIVE SumOfSimilarities(_)
SumOfSimilarities(qs) ==
    IF qs = <<>> THEN 0 ELSE SimilarityOf[Head(qs)] + SumOfSimilarities(Tail(qs))

\* the score of a row is 1.0 without quotes, else the mean of the per-quote
\* similarities to the whole artifact, both lowered; it lies in [0,1] and is 1.0
\* when every quote is in the source
ScoreIsMean(r) ==
    LET qs == AllQuotes(r)
        qv == r.quote_validation_score
    IN /\ qs = <<>> => qv.num = qv.den
       /\ qs # <<>> =>
            /\ qv.den = Len(qs) * Unit
            /\ qv.num = SumOfSimilarities(qs)
       /\ \A i \in 1..Len(qs) : 0 <= SimilarityOf[qs[i]] /\ SimilarityOf[qs[i]] <= Unit
       /\ 0 <= qv.num /\ qv.num <= qv.den /\ qv.den > 0
       /\ (\A i \in 1..Len(qs) : InSource(qs[i])) => qv.num = qv.den

\* a lone quote without overlap scores 0 and raises the warning
LoneStrayQuoteWarns(r) ==
    (Len(AllQuotes(r)) = 1 /\ NoOverlap(AllQuotes(r)[1])) =>
      /\ r.quote_validation_score.num = 0
      /\ Has(r.review_flags, "quote_validation_warning")

\* any quote without overlap raises the warning
AnyStrayQuoteWarns(r) ==
    (\E i \in 1..Len(AllQuotes(r)) : NoOverlap(AllQuotes(r)[i])) =>
      /\ r.quote_validation_score.num * 10 < 8 * r.quote_validation_score.den
      /\ Has(r.review_flags, "quote_validation_warning")

FailureIsLocal ==
    /\ (stage = "04" /\ idx' = idx + 1 /\ call'.exit = "extract" /\ ~call'.ok) =>
          /\ stage' = "04"
          /\ Len(mem') = Len(mem) + 1
          /\ SubSeq(mem', 1, Len(mem)) = mem
          /\ DOMAIN mem'[Len(mem')] = {"journal_name", "error"}
          /\ mem'[Len(mem')].journal_name = todo[idx].journal_name
          /\ todo' = todo
    /\ (stage = "04" /\ idx > Len(todo) /\ stage' = "idle") =>
          /\ hasCsv'
          /\ csv' = mem
          /\ LET present == SelectSeq(todo, LAMBDA e : files[e.slug] # NoFile)
             IN /\ Len(csv') = Len(present)
                /\ \A i \in 1..Len(present) : csv'[i].journal_name = present[i].journal_name

C19_FailureIsLocal == [][FailureIsLocal]_vars

\* the table is written with the error row of the first journal and the
\* analysis of the second
C19_Witness ==
    /\ hasCsv
    /\ Len(csv) = 2
    /\ ~IsResult(csv[1])
    /\ IsResult(csv[2])

\* the characters a slug may hold: a-z, 0-9 and the hyphen
SlugAlphabet ==
    { LowerLetters[i] : i \in 1..Len(LowerLetters) }
    \cup {"0", "1", "2", "3", "4", "5", "6", "7", "8", "9", "-"}

\* C21: slugify(name) is lowercase, holds no character outside [a-z0-9-],
\* whatever the name holds (underscores, non-ASCII letters), and is at most 50
\* characters long.
C21_SlugIsClean ==
    stage = "slugged" =>
      /\ Len(ret) <= 50
      /\ \A i \in 1..Len(ret) : ret[i] \in SlugAlphabet
      /\ \A i \in 1..Len(ret) : \A j \in 1..Len(UpperLetters) : ret[i] # UpperLetters[j]

\* the pieces of an ISSN field, cleaned: without the spaces, the empty ones left out
CleanedParts(issn) ==
    { issn_clean(Split(issn)[i]) : i \in 1..Len(Split(issn)) } \ { <<>> }

Hyphenated44(c) == SubSeq(c, 1, 4) \o <<"-">> \o SubSeq(c, 5, 8)

\* C22: get_issn_variants returns every cleaned sub-ISSN, the form without
\* hyphens of every hyphenated one and the form 4-4 of every unhyphenated one
\* of 8 characters; it returns nothing else, and nothing twice.
C22_IssnVariants ==
    stage = "variants" =>
      LET parts == CleanedParts(arg)
          got   == { ret[i] : i \in 1..Len(ret) }
      IN /\ \A c \in parts :
              /\ c \in got
              /\ HasHyphen(c) => Without(c, "-") \in got
              /\ (~HasHyphen(c) /\ Len(c) = 8) => Hyphenated44(c) \in got
         /\ \A v \in got :
              \E c \in parts :
                \/ v = c
                \/ HasHyphen(c) /\ v = Without(c, "-")
                \/ ~HasHyphen(c) /\ Len(c) = 8 /\ v = Hyphenated44(c)
         /\ \A i, j \in 1..Len(ret) : i # j => ret[i] # ret[j]

\* the field "12345678, 1234-5678 ": four variants are built, two are returned
C22_Witness ==
    /\ stage = "variants"
    /\ Len(issn_variant_list(arg)) = 4
    /\ { ret[i] : i \in 1..Len(ret) } =
         { <<"1", "2", "3", "4", "5", "6", "7", "8">>,
           <<"1", "2", "3", "4", "-", "5", "6", "7", "8">> }
    /\ Len(ret) = 2

\* every persisted success entry has the length of the artifact under its slug
LedgerMatchesArtifacts(l, fs) ==
    \A i \in 1..Len(l) :
      l[i].status = "success" =>
        fs[l[i].slug] # NoFile /\ l[i].text_length = fs[l[i].slug].len

\* C23: a step of a stage after tier 1 that starts with the persisted ledger
\* and the artifacts in agreement leaves them in agreement, so that the run
\* can stop after any journal.
AgreementIsKept ==
    (stage \in LaterStages /\ LedgerMatchesArtifacts(log, files)) =>
      LedgerMatchesArtifacts(log', files')

C23_AgreementIsKept == [][AgreementIsKept]_vars

\* the slug a step of a stage after tier 1 issues a fetch for, <<>> if it issues none
FetchedSlug ==
    IF idx' # idx + 1 THEN <<>>
    ELSE CASE stage = "03b" -> JOURNALS_NEEDING_BROWSER[idx].slug
           [] stage = "03c" -> todo[idx]
           [] stage = "03d" -> JOURNAL_FIXES[idx].slug
           [] stage = "03e" -> SlugK
           [] stage = "03f" -> JOURNALS_TO_FIX[1].slug
           [] stage = "aug" ->
                IF Len(todo') > Len(todo)
                   /\ todo'[Len(todo')].status \in {"updated", "links_failed"}
                THEN mem[idx].slug ELSE <<>>
           [] OTHER -> <<>>

\* C24: a stage after tier 1 issues no fetch for a journal whose persisted
\* entry has status no_url, and persists that entry as it was.
NoUrlIsTerminal ==
    stage \in LaterStages =>
      \A i \in 1..Len(log) :
        log[i].status = "no_url" =>
          /\ FetchedSlug # log[i].slug
          /\ \E j \in 1..Len(log') : log'[j] = log[i]

C24_NoUrlIsTerminal == [][NoUrlIsTerminal]_vars

\* C25: every persisted entry with status success has no error.
C25_SuccessHasNoError ==
    \A i \in 1..Len(log) : log[i].status = "success" => log[i].error = None

\* C26: the method of every persisted entry is http, http-fixed, playwright,
\* browser-use or None.
C26_MethodValues ==
    \A i \in 1..Len(log) :
      log[i].method \in {"http", "http-fixed", "playwright", "browser-use", None}

\* a step that issues a fetch
StepFetches ==
    /\ idx' = idx + 1
    /\ IF stage = "t1" THEN call'.reqs # <<>> ELSE FetchedSlug # <<>>

\* C27: in a run of a retrieval stage, a call issues at most one request, and
\* a fetch that follows the fetch of an earlier iteration comes after a delay.
DelayBetweenFetches ==
    (stage \in {"t1"} \cup LaterStages) =>
      /\ Len(call'.reqs) <= 1
      /\ (StepFetches /\ call.reqs # <<>>) => call.slept

C27_DelayBetweenFetches == [][DelayBetweenFetches]_vars

\* C28: a tier-1 run ends with one persisted entry per row of the input, in
\* the order of the input; a journal whose fetch failed has an entry with
\* status needs_browser and an error, and the loop goes on after it.
BatchCompletes ==
    /\ (stage = "t1" /\ stage' = "idle") =>
          /\ Len(log') = Len(df)
          /\ \A i \in 1..Len(df) :
               /\ log'[i].journal_name = df[i].title
               /\ log'[i].slug = slugify(df[i].title)
    /\ (stage = "t1" /\ idx' = idx + 1 /\ call'.reqs # <<>> /\ ~call'.ok) =>
          /\ stage' = "t1"
          /\ Len(mem') = idx
          /\ mem'[idx].journal_name = df[idx].title
          /\ mem'[idx].status = "needs_browser"
          /\ mem'[idx].error # None

C28_BatchCompletes == [][BatchCompletes]_vars

\* the fields of an entry that tier 1 sets once
Identity(e) == <<e.journal_name, e.slug, e.homepage_url>>

\* C29: a step of a stage after tier 1 leaves journal_name, slug and
\* homepage_url of every entry as they were, in the entries it holds in memory
\* and in the ledger it persists, whether its fetch succeeded or not.
IdentityKept ==
    stage \in LaterStages =>
      /\ \A j \in 1..Len(log') : \E i \in 1..Len(log) : Identity(log'[j]) = Identity(log[i])
      /\ Len(log') = Len(log) =>
           \A i \in 1..Len(log) : Identity(log'[i]) = Identity(log[i])
      /\ (stage' = stage /\ Len(mem') = Len(mem)) =>
           \A i \in 1..Len(mem) : Identity(mem'[i]) = Identity(mem[i])

C29_IdentityKept == [][IdentityKept]_vars

\* the browser stage has accepted a text for a journal and is about to save
C29_Witness ==
    /\ stage = "03b"
    /\ idx > Len(JOURNALS_NEEDING_BROWSER)
    /\ call.ok
    /\ \E i \in 1..Len(mem) :
         /\ mem[i].method = "browser"
         /\ mem[i].guidelines_url = BrowserUrlA
         /\ Identity(mem[i]) = << <<"A">>, SlugA, HomeUrl >>

\* C30: the augmenter passes over an entry whose status is not success without
\* a fetch and without touching an artifact, and the ledger it writes holds
\* that entry as it was read.
OnlySuccessProcessed ==
    /\ (stage = "aug" /\ idx' = idx + 1 /\ mem[idx].status # "success") =>
          /\ files' = files
          /\ todo' = todo
          /\ call' = call
          /\ touched' = touched
    /\ (stage = "aug" /\ stage' = "idle") =>
          /\ Len(log') = Len(log)
          /\ \A i \in 1..Len(log) : log[i].status # "success" => log'[i] = log[i]

C30_OnlySuccessProcessed == [][OnlySuccessProcessed]_vars

\* C31: the table the analysis stage writes holds one row for every entry of
\* the ledger with status success, in the order of the ledger, and no row for
\* any other entry.
AllSuccessConsumed ==
    (stage = "04" /\ idx > Len(todo) /\ stage' = "idle") =>
      LET wanted == SelectSeq(log, LAMBDA e : e.status = "success")
      IN /\ Len(csv') = Len(wanted)
         /\ \A i \in 1..Len(wanted) : csv'[i].journal_name = wanted[i].journal_name

C32_MethodImpliesSuccess ==
    \A i \in 1..Len(log) : log[i].method # None => log[i].status = "success"

\* C33: the status of every persisted entry is no_url, success or
\* needs_browser; it is never pending and never failed.
C33_StatusValues ==
    \A i \in 1..Len(log) : log[i].status \in {"no_url", "success", "needs_browser"}

\* a ledger with a no_url entry and an entry a later stage has set to success
C33_Witness ==
    /\ stage = "idle"
    /\ Len(log) = 2
    /\ log[1].status = "no_url"
    /\ log[2].status = "success"
    /\ log[2].method = "playwright"

\* C34: with every link answering as in the first run, a second run of the
\* augmenter changes no artifact and persists the ledger it read.
AugmenterIdempotent ==
    (stage = "aug" /\ runs >= 2) =>
      /\ files' = files
      /\ stage' = "idle" => log' = log

C34_AugmenterIdempotent == [][AugmenterIdempotent]_vars

\* C35: what a process reads from the ledger file while a stage saves it is
\* the whole ledger of before the save or the whole ledger of after it.
C35_AtomicSave ==
    \/ ret = NoUrl
    \/ /\ ret.whole
       /\ ret.entries \in {arg, mem}

====
